---- MODULE Spec2Model ----
(***************************************************************************)
(* A model of the stub server's TCP connection handler                     *)
(* (TCPStubServer.handleConnection), of the WebSocket-to-TCP bridge        *)
(* (Bridge.handleWebSocket), of the HTTP stub server                       *)
(* (HTTPStubServer.ServeHTTP) and of the stub server process (main,        *)
(* TCPStubServer.Start, listenTCP and the handlers it starts).             *)
(*                                                                         *)
(* Go strings and []byte values are sequences of bytes (0..255); a string  *)
(* literal of the source is written as the sequence of its ASCII codes.    *)
(***************************************************************************)
EXTENDS Integers, Sequences, FiniteSets, Bags, TLC

\* ------------------------------------------------------------------------
\* Bounds of the model (not program constants)
\* ------------------------------------------------------------------------
\* how many writes the TCP client performs on one connection
MaxSends == 2
\* a read that returns less than what the client has written returns 1..MaxSeg bytes
MaxSeg == 2
\* how many reads of one connection return less than what the client has written
MaxSplits == 1

\* how many messages the two peers of one bridge session send in all: frames of
\* the WebSocket peer and writes of the TCP backend
MaxTraffic == 2
\* the count of idle timeouts is kept up to MaxTimeouts
MaxTimeouts == 1

\* ------------------------------------------------------------------------
\* Program constants
\* ------------------------------------------------------------------------
\* buffer := make([]byte, 4096)
BufSize == 4096
\* errChan := make(chan error, 2)
ErrChanCap == 2

Min(a, b) == IF a < b THEN a ELSE b

\* ------------------------------------------------------------------------
\* encoding/hex as the program uses it
\* ------------------------------------------------------------------------
\* hextable = "0123456789abcdef", as ASCII codes
HexTable == <<48, 49, 50, 51, 52, 53, 54, 55, 56, 57, 97, 98, 99, 100, 101, 102>>

\* EncodeToString with the two characters of a byte the other way round
EncodeToStringSwapped(d) ==
    [i \in 1..(2 * Len(d)) |->
        IF i % 2 = 1 THEN HexTable[(d[(i + 1) \div 2] % 16) + 1]
                     ELSE HexTable[(d[i \div 2] \div 16) + 1]]

\* hex.EncodeToString(data): two lower-case hex characters per byte
EncodeToString(d) ==
    [i \in 1..(2 * Len(d)) |->
        IF i % 2 = 1 THEN HexTable[(d[(i + 1) \div 2] \div 16) + 1]
                     ELSE HexTable[(d[i \div 2] % 16) + 1]]

\* the value of one hex character, 255 when it is not a hex character
FromHexChar(c) ==
    IF c >= 48 /\ c <= 57 THEN c - 48
    ELSE IF c >= 97 /\ c <= 102 THEN c - 97 + 10
    ELSE IF c >= 65 /\ c <= 70 THEN c - 65 + 10
    ELSE 255

\* hex.DecodeString(s): the bytes decoded before the first error, and the error
DecodeString(s) ==
    LET pairs == Len(s) \div 2
        badPair(j) == FromHexChar(s[2 * j - 1]) > 15 \/ FromHexChar(s[2 * j]) > 15
        bad == {j \in 1..pairs : badPair(j)}
        firstBad == IF bad = {} THEN 0
                    ELSE CHOOSE j \in bad : \A k \in bad : j <= k
        good == IF firstBad = 0 THEN pairs ELSE firstBad - 1
        bytes == [j \in 1..good |->
                     FromHexChar(s[2 * j - 1]) * 16 + FromHexChar(s[2 * j])]
        err == IF firstBad # 0 THEN "InvalidByteError"
               ELSE IF Len(s) % 2 = 1
                    THEN (IF FromHexChar(s[Len(s)]) > 15 THEN "InvalidByteError"
                          ELSE "ErrLength")
               ELSE "nil"
    IN [bytes |-> bytes, err |-> err]

\* ------------------------------------------------------------------------
\* The TCP stub rules (TCPStub) the handler is run against
\* ------------------------------------------------------------------------
\* "0102"
Hex0102 == <<48, 49, 48, 50>>
\* "zz": not hexadecimal
HexZZ == <<122, 122>>
\* "hi"
MsgHi == <<104, 105>>

\* (min_length, max_length) in hex characters
LengthBounds == { <<0, 0>>, <<4, 8>>, <<4, -1>>, <<0, 2>> }

\* (delay in ms, response)
Replies ==
    { <<0, [hex |-> Hex0102, msg |-> <<>>]>>,
      <<50, [hex |-> <<>>, msg |-> MsgHi]>>,
      <<0, [hex |-> HexZZ, msg |-> MsgHi]>> }

Stub(v, lb, ca, r) ==
    [ ValidateRequest |-> v, MinLength |-> lb[1], MaxLength |-> lb[2],
      CloseAfter |-> ca, Delay |-> r[1], Response |-> r[2] ]

\* validation disabled: the length bounds are never looked at
Stubs ==
    { Stub(TRUE, lb, ca, r) : lb \in LengthBounds, ca \in BOOLEAN, r \in Replies }
    \cup { Stub(FALSE, <<4, 8>>, ca, r) : ca \in BOOLEAN, r \in Replies }

\* the payloads a client writes: 1 byte, 2 bytes, and (as its first write only)
\* one byte more than a buffer
SmallPayloads == { <<1>>, <<240, 13>> }
BigPayload == [i \in 1..(BufSize + 1) |-> 0]

VARIABLES
    \* --- TCP connection handler ---
    stub,          \* the rule the listener bound this connection to
    pc,            \* position of handleConnection
    client,        \* the peer: "open", "closed" (sent FIN), "reset"
    stream,        \* bytes the client has written that the handler has not read yet
    splits,        \* number of reads that returned less than what was written
    sent,          \* the lengths of the client's writes so far, in order
    data,          \* buffer[:n] of the latest read
    responseData,  \* the response bytes computed for the first exchange
    events,        \* the calls handleConnection has made, in order
    closes         \* number of conn.Close() calls

VARIABLES
    \* --- WebSocket-to-TCP bridge: one session ---
    mpc,        \* position of handleWebSocket
    apc,        \* position of the WebSocket -> TCP goroutine
    bpc,        \* position of the TCP -> WebSocket goroutine
    ws,         \* wsConn: "none", "open", "closed"
    tcp,        \* tcpConn: "none", "open", "closed"
    wsCloses,   \* number of wsConn.Close() calls
    tcpCloses,  \* number of tcpConn.Close() calls
    wsPeer,     \* the WebSocket peer: "open", "closed"
    wsIn,       \* frames the peer has sent that ReadMessage has not returned yet
    wsFrames,   \* number of frames the peer has sent
    tcpPeer,    \* the TCP backend: "open", "closed"
    tcpIn,      \* bytes the backend has sent that Read has not returned yet
    tcpChunks,  \* number of writes the backend has done
    dataToSend, \* the bytes the WebSocket -> TCP goroutine is about to write
    rxFrames,   \* the frames ReadMessage has returned, in order
    tcpOut,     \* the tcpConn.Write calls, in order
    chunkB,     \* buffer[:n] of the TCP -> WebSocket goroutine
    rxChunks,   \* the chunks tcpConn.Read has returned, in order
    timeouts,   \* number of reads that ended on the 30 s deadline
    errChan,    \* the buffered channel of errors
    wsOut,      \* the wsConn.WriteMessage calls, in order of completion
    wsWriting,  \* the tasks that are inside wsConn.WriteMessage
    crashed     \* the process has died on a panic

VARIABLES
    \* --- HTTP stub server: one request ---
    httpStubs,  \* s.stubs of HTTPStubServer, in the order they were added
    request,    \* the request as it arrived: Method, Path, Header, Body
    rBody,      \* r.Body: the bytes not read yet, and whether reading on fails
    hpc,        \* position of ServeHTTP
    scanIdx,    \* index of the stub the loop of ServeHTTP is at
    bodyReads,  \* number of io.ReadAll(r.Body) calls
    httpResp    \* what ServeHTTP has written

VARIABLES
    \* --- the bridge's two conversions, one after the other ---
    rtData,     \* data := buffer[:n] of the TCP -> WebSocket goroutine
    rtFrame,    \* the text frame written for it
    rtOut,      \* what the WebSocket -> TCP goroutine does with that frame
    rtpc        \* position in the round trip

VARIABLES
    \* --- stub server process: main, the listeners and their handlers ---
    mainPc,     \* position of main
    configFile, \* the -config file
    tcpStubs,   \* s.stubs of TCPStubServer: a map from port to rule
    addIdx,     \* number of rules of the config main has added
    listeners,  \* the goroutines started by Start, each running listenTCP
    conns       \* the accepted connections, each with its handleConnection: a bag

tvars == <<stub, pc, client, stream, splits, sent, data, responseData, events, closes>>

mainVars == <<mpc, ws, tcp, wsCloses, tcpCloses>>
peerVars == <<wsPeer, wsIn, wsFrames, tcpPeer, tcpIn, tcpChunks>>
aVars == <<apc, dataToSend, rxFrames, tcpOut>>
bVars == <<bpc, chunkB, rxChunks, timeouts>>
sharedVars == <<errChan, wsOut, wsWriting, crashed>>
bvars == <<mainVars, peerVars, aVars, bVars, sharedVars>>

hvars == <<httpStubs, request, rBody, hpc, scanIdx, bodyReads, httpResp>>
rvars == <<rtData, rtFrame, rtOut, rtpc>>
svars == <<mainPc, configFile, tcpStubs, addIdx, listeners, conns>>
xvars == <<hvars, rvars, svars>>

vars == <<tvars, bvars, xvars>>

Ev(op, n, bytes, ok) == [op |-> op, n |-> n, bytes |-> bytes, ok |-> ok]

\* a connection has been accepted on the port of one of the rules
TcpInit ==
    /\ stub \in Stubs
    /\ pc = "read"
    /\ client = "open"
    /\ stream = <<>>
    /\ splits = 0
    /\ sent = <<>>
    /\ data = <<>>
    /\ responseData = <<>>
    /\ events = <<>>
    /\ closes = 0

\* ---------------- the peer and the network ----------------
Payloads == IF sent = <<>> THEN SmallPayloads \cup {BigPayload} ELSE SmallPayloads

ClientWrite(p) ==
    /\ pc # "off"
    /\ client = "open"
    /\ Len(sent) < MaxSends
    /\ sent' = Append(sent, Len(p))
    /\ stream' = stream \o p
    /\ UNCHANGED <<stub, pc, client, splits, data, responseData, events, closes>>
    /\ UNCHANGED <<bvars, xvars>>

ClientClose ==
    /\ pc # "off"
    /\ client = "open"
    /\ client' = "closed"
    /\ UNCHANGED <<stub, pc, stream, splits, sent, data, responseData, events, closes>>
    /\ UNCHANGED <<bvars, xvars>>

\* the client resets the connection: the bytes that were received before the
\* reset stay readable
ClientReset ==
    /\ client = "open"
    /\ pc \notin {"off", "done"}
    /\ client' = "reset"
    /\ UNCHANGED <<stub, pc, stream, splits, sent, data, responseData, events, closes>>
    /\ UNCHANGED <<bvars, xvars>>

\* ---------------- handleConnection ----------------
\* reader.Read(buffer) returns data: what has arrived of the stream, at most a
\* buffer of it. All of it has arrived, or (MaxSplits times) only its first bytes.
ReadSizes ==
    LET all == Min(Len(stream), BufSize)
    IN IF stream = <<>> THEN {}
       ELSE {all} \cup {k \in 1..MaxSeg : k < all /\ splits < MaxSplits}
\* reader.Read(buffer) returns an error: EOF after the peer's FIN, or a reset
\* (which can come before the bytes received ahead of it have been read)
ReadFails == client = "reset" \/ (client = "closed" /\ stream = <<>>)
\* conn.Write fails once the peer has reset the connection
WriteOk == client # "reset"

validateRequestOffByOne(d, s) ==
    LET hexData == EncodeToString(d)
        hexLength == Len(hexData)
    IN IF s.MinLength > 0 /\ hexLength <= s.MinLength THEN FALSE
       ELSE IF s.MaxLength > 0 /\ hexLength > s.MaxLength THEN FALSE
       ELSE TRUE

validateRequest(d, s) ==
    LET hexData == EncodeToString(d)
        hexLength == Len(hexData)
    IN IF s.MinLength > 0 /\ hexLength < s.MinLength THEN FALSE
       ELSE IF s.MaxLength > 0 /\ hexLength > s.MaxLength THEN FALSE
       ELSE TRUE

FirstRead ==
    /\ pc = "read"
    /\ \/ /\ \E n \in ReadSizes :
                /\ data' = SubSeq(stream, 1, n)
                /\ stream' = SubSeq(stream, n + 1, Len(stream))
                /\ splits' = IF n < Min(Len(stream), BufSize) THEN splits + 1 ELSE splits
                /\ events' = Append(events, Ev("read", n, <<>>, TRUE))
          /\ pc' = "validate"
       \/ /\ ReadFails
          /\ events' = Append(events, Ev("read", 0, <<>>, FALSE))
          /\ pc' = "close"
          /\ UNCHANGED <<data, stream, splits>>
    /\ UNCHANGED <<stub, client, sent, responseData, closes>>
    /\ UNCHANGED <<bvars, xvars>>

Validate ==
    /\ pc = "validate"
    /\ IF stub.ValidateRequest
       THEN LET valid == validateRequest(data, stub) IN
               /\ events' = Append(events, Ev("validate", Len(data), <<>>, valid))
               /\ pc' = IF valid THEN "delay" ELSE "close"
       ELSE /\ pc' = "delay"
            /\ UNCHANGED events
    /\ UNCHANGED <<stub, client, stream, splits, sent, data, responseData, closes>>
    /\ UNCHANGED <<bvars, xvars>>

\* Delay without the sleep
DelaySkipped ==
    /\ pc = "delay"
    /\ pc' = "respond"
    /\ UNCHANGED <<stub, client, stream, splits, sent, data, responseData, events, closes>>
    /\ UNCHANGED <<bvars, xvars>>

Delay ==
    /\ pc = "delay"
    /\ IF stub.Delay > 0
       THEN events' = Append(events, Ev("sleep", stub.Delay, <<>>, TRUE))
       ELSE UNCHANGED events
    /\ pc' = "respond"
    /\ UNCHANGED <<stub, client, stream, splits, sent, data, responseData, closes>>
    /\ UNCHANGED <<bvars, xvars>>

\* Respond with the close_after test left out: the connection is always kept
RespondKeepsOpen ==
    /\ pc = "respond"
    /\ LET dec == DecodeString(stub.Response.hex)
           bytes == IF stub.Response.hex # <<>> THEN dec.bytes ELSE stub.Response.msg
       IN IF stub.Response.hex # <<>> /\ dec.err # "nil"
          THEN /\ responseData' = dec.bytes
               /\ pc' = "close"
               /\ UNCHANGED events
          ELSE /\ responseData' = bytes
               /\ events' = Append(events, Ev("write", Len(bytes), bytes, WriteOk))
               /\ pc' = IF ~WriteOk THEN "close" ELSE "loop"
    /\ UNCHANGED <<stub, client, stream, splits, sent, data, closes>>
    /\ UNCHANGED <<bvars, xvars>>

\* Respond writing what was decoded when response_hex does not decode
RespondIgnoresDecodeError ==
    /\ pc = "respond"
    /\ LET dec == DecodeString(stub.Response.hex)
           bytes == IF stub.Response.hex # <<>> THEN dec.bytes ELSE stub.Response.msg
       IN /\ responseData' = bytes
          /\ events' = Append(events, Ev("write", Len(bytes), bytes, WriteOk))
          /\ pc' = IF ~WriteOk THEN "close"
                   ELSE IF ~stub.CloseAfter THEN "loop" ELSE "close"
    /\ UNCHANGED <<stub, client, stream, splits, sent, data, closes>>
    /\ UNCHANGED <<bvars, xvars>>

Respond ==
    /\ pc = "respond"
    /\ LET dec == DecodeString(stub.Response.hex)
           bytes == IF stub.Response.hex # <<>> THEN dec.bytes ELSE stub.Response.msg
       IN IF stub.Response.hex # <<>> /\ dec.err # "nil"
          THEN /\ responseData' = dec.bytes
               /\ pc' = "close"
               /\ UNCHANGED events
          ELSE /\ responseData' = bytes
               /\ events' = Append(events, Ev("write", Len(bytes), bytes, WriteOk))
               /\ pc' = IF ~WriteOk THEN "close"
                        ELSE IF ~stub.CloseAfter THEN "loop" ELSE "close"
    /\ UNCHANGED <<stub, client, stream, splits, sent, data, closes>>
    /\ UNCHANGED <<bvars, xvars>>

\* LoopRead with the request validated again on every read
LoopReadRevalidating ==
    /\ pc = "loop"
    /\ \/ /\ \E n \in ReadSizes :
                LET d == SubSeq(stream, 1, n)
                    valid == ~stub.ValidateRequest \/ validateRequest(d, stub)
                IN /\ data' = d
                   /\ stream' = SubSeq(stream, n + 1, Len(stream))
                   /\ splits' = IF n < Min(Len(stream), BufSize) THEN splits + 1 ELSE splits
                   /\ events' = events \o <<Ev("read", n, <<>>, TRUE),
                                              Ev("validate", n, <<>>, valid)>>
                   /\ pc' = IF valid THEN "loopwrite" ELSE "close"
       \/ /\ ReadFails
          /\ events' = Append(events, Ev("read", 0, <<>>, FALSE))
          /\ pc' = "close"
          /\ UNCHANGED <<data, stream, splits>>
    /\ UNCHANGED <<stub, client, sent, responseData, closes>>
    /\ UNCHANGED <<bvars, xvars>>

LoopRead ==
    /\ pc = "loop"
    /\ \/ /\ \E n \in ReadSizes :
                /\ data' = SubSeq(stream, 1, n)
                /\ stream' = SubSeq(stream, n + 1, Len(stream))
                /\ splits' = IF n < Min(Len(stream), BufSize) THEN splits + 1 ELSE splits
                /\ events' = Append(events, Ev("read", n, <<>>, TRUE))
          /\ pc' = "loopwrite"
       \/ /\ ReadFails
          /\ events' = Append(events, Ev("read", 0, <<>>, FALSE))
          /\ pc' = "close"
          /\ UNCHANGED <<data, stream, splits>>
    /\ UNCHANGED <<stub, client, sent, responseData, closes>>
    /\ UNCHANGED <<bvars, xvars>>

\* LoopWrite answering with the request just read instead of the response
LoopWriteEcho ==
    /\ pc = "loopwrite"
    /\ events' = Append(events, Ev("write", Len(data), data, WriteOk))
    /\ pc' = "loop"
    /\ UNCHANGED <<stub, client, stream, splits, sent, data, responseData, closes>>
    /\ UNCHANGED <<bvars, xvars>>

LoopWrite ==
    /\ pc = "loopwrite"
    /\ events' = Append(events, Ev("write", Len(responseData), responseData, WriteOk))
    /\ pc' = "loop"
    /\ UNCHANGED <<stub, client, stream, splits, sent, data, responseData, closes>>
    /\ UNCHANGED <<bvars, xvars>>

Close ==
    /\ pc = "close"
    /\ closes' = closes + 1
    /\ events' = Append(events, Ev("close", 0, <<>>, TRUE))
    /\ pc' = "done"
    /\ UNCHANGED <<stub, client, stream, splits, sent, data, responseData>>
    /\ UNCHANGED <<bvars, xvars>>

TcpNext ==
    \/ \E p \in Payloads : ClientWrite(p)
    \/ ClientClose
    \/ ClientReset
    \/ FirstRead
    \/ Validate
    \/ Delay
    \/ Respond
    \/ LoopRead
    \/ LoopWrite
    \/ Close

\* no connection is being handled
TcpIdle ==
    /\ stub = Stub(FALSE, <<0, 0>>, TRUE, <<0, [hex |-> <<>>, msg |-> <<>>]>>)
    /\ pc = "off"
    /\ client = "open"
    /\ stream = <<>>
    /\ splits = 0
    /\ sent = <<>>
    /\ data = <<>>
    /\ responseData = <<>>
    /\ events = <<>>
    /\ closes = 0

\* ------------------------------------------------------------------------
\* The WebSocket-to-TCP bridge
\* ------------------------------------------------------------------------
\* "f00d"
HexF00D == <<102, 48, 48, 100>>
\* "ERROR: Invalid hex: " (the text of the error that follows is left out)
ErrInvalidHex ==
    <<69, 82, 82, 79, 82, 58, 32, 73, 110, 118, 97, 108, 105, 100, 32, 104, 101, 120, 58, 32>>
\* "ERROR: Cannot connect to TCP backend: " (the text of the error is left out)
ErrCannotConnect ==
    <<69, 82, 82, 79, 82, 58, 32, 67, 97, 110, 110, 111, 116, 32, 99, 111, 110, 110, 101, 99,
      116, 32, 116, 111, 32, 84, 67, 80, 32, 98, 97, 99, 107, 101, 110, 100, 58, 32>>

Frame(mt, d) == [mt |-> mt, data |-> d]

\* the frames the WebSocket peer sent
PeerFrames ==
    { Frame("binary", <<240, 13>>), Frame("text", HexF00D), Frame("text", HexZZ) }

\* the writes of the TCP backend
BackendChunks == { <<240, 13>>, <<1>> }

\* the bridge before a session: handleWebSocket is at m, no goroutine runs
BridgeStart(m) ==
    /\ mpc = m /\ apc = "idle" /\ bpc = "idle"
    /\ ws = "none" /\ tcp = "none"
    /\ wsCloses = 0 /\ tcpCloses = 0
    /\ wsPeer = "open" /\ wsIn = <<>> /\ wsFrames = 0
    /\ tcpPeer = "open" /\ tcpIn = <<>> /\ tcpChunks = 0
    /\ dataToSend = <<>> /\ rxFrames = <<>> /\ tcpOut = <<>>
    /\ chunkB = <<>> /\ rxChunks = <<>> /\ timeouts = 0
    /\ errChan = <<>> /\ wsOut = <<>> /\ wsWriting = {} /\ crashed = FALSE

\* ---------------- the peers ----------------
\* (a frame sent before the goroutines run waits in the queue just the same)
WsPeerSend(f) ==
    /\ ~crashed
    /\ ws = "open" /\ wsPeer = "open"
    /\ apc # "idle"
    /\ wsFrames + tcpChunks < MaxTraffic
    /\ wsFrames' = wsFrames + 1
    /\ wsIn' = Append(wsIn, f)
    /\ UNCHANGED <<wsPeer, tcpPeer, tcpIn, tcpChunks>>
    /\ UNCHANGED <<tvars, xvars, mainVars, aVars, bVars, sharedVars>>

WsPeerClose ==
    /\ ~crashed
    /\ ws = "open" /\ wsPeer = "open"
    /\ wsPeer' = "closed"
    /\ UNCHANGED <<wsIn, wsFrames, tcpPeer, tcpIn, tcpChunks>>
    /\ UNCHANGED <<tvars, xvars, mainVars, aVars, bVars, sharedVars>>

TcpPeerSend(c) ==
    /\ ~crashed
    /\ tcp = "open" /\ tcpPeer = "open"
    /\ wsFrames + tcpChunks < MaxTraffic
    /\ tcpChunks' = tcpChunks + 1
    /\ tcpIn' = tcpIn \o c
    /\ UNCHANGED <<wsPeer, wsIn, wsFrames, tcpPeer>>
    /\ UNCHANGED <<tvars, xvars, mainVars, aVars, bVars, sharedVars>>

TcpPeerClose ==
    /\ ~crashed
    /\ tcp = "open" /\ tcpPeer = "open"
    /\ tcpPeer' = "closed"
    /\ UNCHANGED <<wsPeer, wsIn, wsFrames, tcpIn, tcpChunks>>
    /\ UNCHANGED <<tvars, xvars, mainVars, aVars, bVars, sharedVars>>

\* ---------------- wsConn.WriteMessage ----------------
\* wsWriting holds <<task, raced>>: raced when another WriteMessage overlapped it.
\* WriteMessage is entered. The connection allows one writer at a time and does
\* not lock: entering while another task is inside is a data race, which the
\* library either detects (it panics, and the process dies) or misses. It
\* looks for a second writer when a write is entered and again when the frame
\* has been flushed, so a race missed at the entry can still end in a panic
\* at the return (WsWritePanics).
WsWriteBegin(task) ==
    IF wsWriting = {}
    THEN /\ wsWriting' = {<<task, FALSE>>}
         /\ UNCHANGED crashed
    ELSE \/ /\ crashed' = TRUE
            /\ UNCHANGED wsWriting
         \/ /\ wsWriting' = {<<w[1], TRUE>> : w \in wsWriting} \cup {<<task, TRUE>>}
            /\ UNCHANGED crashed

\* the outcomes of a write on wsConn: it fails on a connection closed here, it
\* may fail or not once the peer has closed
WsWriteResults ==
    IF ws = "closed" THEN {FALSE}
    ELSE IF wsPeer = "closed" THEN {TRUE, FALSE}
    ELSE {TRUE}

\* a WriteMessage that was overlapped by another finds, once its frame is
\* flushed, that the writer flag was reset under it: it panics, and the process
\* dies with what was written so far
WsWritePanics(task) ==
    /\ \E w \in wsWriting : w[1] = task /\ w[2]
    /\ crashed' = TRUE
    /\ UNCHANGED <<wsOut, wsWriting>>

\* WriteMessage returns ok
WsWriteEnd(task, mt, d, ok) ==
    /\ ok \in WsWriteResults
    /\ \E w \in wsWriting :
          /\ w[1] = task
          /\ wsOut' = Append(wsOut, [by |-> task, mt |-> mt, data |-> d, ok |-> ok,
                                     raced |-> w[2]])
          /\ wsWriting' = wsWriting \ {w}
    /\ UNCHANGED crashed

\* ---------------- handleWebSocket ----------------
\* upgrader.Upgrade, and the deferred wsConn.Close() when it fails
Upgrade ==
    /\ mpc = "upgrade"
    /\ \/ /\ ws' = "open"
          /\ mpc' = "dial"
       \/ /\ mpc' = "done"
          /\ UNCHANGED ws
    /\ UNCHANGED <<tcp, wsCloses, tcpCloses>>
    /\ UNCHANGED <<tvars, xvars, peerVars, aVars, bVars, sharedVars>>

\* Dial returning on a connect failure without the deferred wsConn.Close()
DialFailureLeaks ==
    /\ mpc = "dial"
    /\ \/ /\ tcp' = "open"
          /\ errChan' = <<>>
          /\ apc' = "read"
          /\ bpc' = "read"
          /\ mpc' = "wait"
          /\ UNCHANGED wsOut
       \/ /\ \E ok \in WsWriteResults :
                wsOut' = Append(wsOut, [by |-> "M", mt |-> "text", data |-> ErrCannotConnect,
                                        ok |-> ok, raced |-> FALSE])
          /\ mpc' = "done"
          /\ UNCHANGED <<tcp, errChan, apc, bpc>>
    /\ UNCHANGED <<ws, wsCloses, tcpCloses, wsWriting, crashed>>
    /\ UNCHANGED <<dataToSend, rxFrames, tcpOut, chunkB, rxChunks, timeouts>>
    /\ UNCHANGED <<tvars, xvars, peerVars>>

\* Dial going on to the relay loops after a connect failure
DialFailureIgnored ==
    /\ mpc = "dial"
    /\ \/ /\ tcp' = "open"
          /\ UNCHANGED wsOut
       \/ /\ \E ok \in WsWriteResults :
                wsOut' = Append(wsOut, [by |-> "M", mt |-> "text", data |-> ErrCannotConnect,
                                        ok |-> ok, raced |-> FALSE])
          /\ UNCHANGED tcp
    /\ errChan' = <<>>
    /\ apc' = "read"
    /\ bpc' = "read"
    /\ mpc' = "wait"
    /\ UNCHANGED <<ws, wsCloses, tcpCloses, wsWriting, crashed>>
    /\ UNCHANGED <<dataToSend, rxFrames, tcpOut, chunkB, rxChunks, timeouts>>
    /\ UNCHANGED <<tvars, xvars, peerVars>>

\* net.DialTimeout; on success the channel is made and both goroutines start
Dial ==
    /\ mpc = "dial"
    /\ \/ /\ tcp' = "open"
          /\ errChan' = <<>>
          /\ apc' = "read"
          /\ bpc' = "read"
          /\ mpc' = "wait"
          /\ UNCHANGED wsOut
       \/ /\ \E ok \in WsWriteResults :
                wsOut' = Append(wsOut, [by |-> "M", mt |-> "text", data |-> ErrCannotConnect,
                                        ok |-> ok, raced |-> FALSE])
          /\ mpc' = "closeWs"
          /\ UNCHANGED <<tcp, errChan, apc, bpc>>
    /\ UNCHANGED <<ws, wsCloses, tcpCloses, wsWriting, crashed>>
    /\ UNCHANGED <<dataToSend, rxFrames, tcpOut, chunkB, rxChunks, timeouts>>
    /\ UNCHANGED <<tvars, xvars, peerVars>>

\* err = <-errChan
Wait ==
    /\ ~crashed
    /\ mpc = "wait"
    /\ errChan # <<>>
    /\ errChan' = Tail(errChan)
    /\ mpc' = "closeTcp"
    /\ UNCHANGED <<ws, tcp, wsCloses, tcpCloses, wsOut, wsWriting, crashed>>
    /\ UNCHANGED <<tvars, xvars, peerVars, aVars, bVars>>

\* the deferred tcpConn.Close()
CloseTcp ==
    /\ ~crashed
    /\ mpc = "closeTcp"
    /\ tcp' = "closed"
    /\ tcpCloses' = tcpCloses + 1
    /\ mpc' = "closeWs"
    /\ UNCHANGED <<ws, wsCloses>>
    /\ UNCHANGED <<tvars, xvars, peerVars, aVars, bVars, sharedVars>>

\* handleWebSocket returning without the deferred wsConn.Close()
CloseWsSkipped ==
    /\ ~crashed
    /\ mpc = "closeWs"
    /\ mpc' = "done"
    /\ UNCHANGED <<ws, wsCloses, tcp, tcpCloses>>
    /\ UNCHANGED <<tvars, xvars, peerVars, aVars, bVars, sharedVars>>

\* the deferred wsConn.Close()
CloseWs ==
    /\ ~crashed
    /\ mpc = "closeWs"
    /\ ws' = "closed"
    /\ wsCloses' = wsCloses + 1
    /\ mpc' = "done"
    /\ UNCHANGED <<tcp, tcpCloses>>
    /\ UNCHANGED <<tvars, xvars, peerVars, aVars, bVars, sharedVars>>

\* ---------------- the WebSocket -> TCP goroutine ----------------
\* AReadFrame forwarding a text frame as it is, like a binary one
AReadFrameRaw ==
    /\ wsIn # <<>>
    /\ LET f == Head(wsIn)
       IN /\ rxFrames' = Append(rxFrames, f)
          /\ wsIn' = Tail(wsIn)
          /\ dataToSend' = f.data
          /\ apc' = "write"

\* wsConn.ReadMessage returns the next frame, also one that was buffered before
\* the connection was closed; then the frame is turned into the bytes to send
AReadFrame ==
    /\ wsIn # <<>>
    /\ LET f == Head(wsIn)
           dec == DecodeString(f.data)
       IN /\ rxFrames' = Append(rxFrames, f)
          /\ wsIn' = Tail(wsIn)
          /\ IF f.mt = "binary"
             THEN /\ dataToSend' = f.data
                  /\ apc' = "write"
             ELSE /\ dataToSend' = dec.bytes
                  /\ apc' = IF dec.err # "nil" THEN "errframe" ELSE "write"

\* wsConn.ReadMessage fails: the peer has closed, or the connection was closed here
AReadFails ==
    /\ \/ ws = "closed"
       \/ wsPeer = "closed" /\ wsIn = <<>>
    /\ apc' = "reportRead"
    /\ UNCHANGED <<rxFrames, wsIn, dataToSend>>

ARead ==
    /\ ~crashed
    /\ apc = "read"
    /\ (AReadFrame \/ AReadFails)
    /\ UNCHANGED <<tcpOut, wsPeer, wsFrames, tcpPeer, tcpIn, tcpChunks>>
    /\ UNCHANGED <<tvars, xvars, mainVars, bVars, sharedVars>>

\* the invalid-hex branch enters wsConn.WriteMessage
AErrBegin ==
    /\ ~crashed
    /\ apc = "errframe"
    /\ WsWriteBegin("A")
    /\ apc' = "errsending"
    /\ UNCHANGED <<dataToSend, rxFrames, tcpOut, errChan, wsOut>>
    /\ UNCHANGED <<tvars, xvars, mainVars, peerVars, bVars>>

\* WriteMessage returns (its result is not looked at); continue. Or it panics.
AErrEnd ==
    /\ ~crashed
    /\ apc = "errsending"
    /\ \/ /\ \E ok \in BOOLEAN : WsWriteEnd("A", "text", ErrInvalidHex, ok)
          /\ apc' = "read"
       \/ /\ WsWritePanics("A")
          /\ UNCHANGED apc
    /\ UNCHANGED <<dataToSend, rxFrames, tcpOut, errChan>>
    /\ UNCHANGED <<tvars, xvars, mainVars, peerVars, bVars>>

\* the outcomes of tcpConn.Write
TcpWriteResults ==
    IF tcp = "closed" THEN {FALSE}
    ELSE IF tcpPeer = "closed" THEN {TRUE, FALSE}
    ELSE {TRUE}

\* tcpConn.Write(dataToSend)
AWrite ==
    /\ ~crashed
    /\ apc = "write"
    /\ \E ok \in TcpWriteResults :
          /\ tcpOut' = Append(tcpOut, [data |-> dataToSend, ok |-> ok])
          /\ apc' = IF ok THEN "read" ELSE "reportWrite"
    /\ UNCHANGED <<dataToSend, rxFrames>>
    /\ UNCHANGED <<tvars, xvars, mainVars, peerVars, bVars, sharedVars>>

\* errChan <- err; return
AReport ==
    /\ ~crashed
    /\ apc \in {"reportRead", "reportWrite"}
    /\ Len(errChan) < ErrChanCap
    /\ errChan' = Append(errChan, IF apc = "reportRead" THEN "WS read error"
                                   ELSE "TCP write error")
    /\ apc' = "done"
    /\ UNCHANGED <<dataToSend, rxFrames, tcpOut, wsOut, wsWriting, crashed>>
    /\ UNCHANGED <<tvars, xvars, mainVars, peerVars, bVars>>

\* ---------------- the TCP -> WebSocket goroutine ----------------
\* what tcpConn.Read returns under the 30 s deadline: "data", or the error
TcpReadResult ==
    IF tcp = "closed" THEN "closed"
    ELSE IF tcpIn # <<>> THEN "data"
    ELSE IF tcpPeer = "closed" THEN "EOF"
    ELSE "timeout"

\* no error is taken for a timeout
IsTimeoutNever(err) == FALSE

\* every error is taken for a timeout
IsTimeoutAlways(err) == TRUE

\* netErr, ok := err.(net.Error); ok && netErr.Timeout()
IsTimeout(err) == err = "timeout"

BRead ==
    /\ ~crashed
    /\ bpc = "read"
    /\ LET r == TcpReadResult
           n == Min(Len(tcpIn), BufSize)
       IN IF r = "data"
          THEN /\ chunkB' = SubSeq(tcpIn, 1, n)
               /\ tcpIn' = SubSeq(tcpIn, n + 1, Len(tcpIn))
               /\ rxChunks' = Append(rxChunks, SubSeq(tcpIn, 1, n))
               /\ bpc' = "send"
               /\ UNCHANGED timeouts
          ELSE IF IsTimeout(r)
          THEN /\ timeouts' = Min(timeouts + 1, MaxTimeouts)
               /\ UNCHANGED <<bpc, chunkB, rxChunks, tcpIn>>
          ELSE /\ bpc' = "reportRead"
               /\ UNCHANGED <<chunkB, rxChunks, timeouts, tcpIn>>
    /\ UNCHANGED <<wsPeer, wsIn, wsFrames, tcpPeer, tcpChunks>>
    /\ UNCHANGED <<tvars, xvars, mainVars, aVars, sharedVars>>

\* wsConn.WriteMessage(websocket.TextMessage, []byte(hexData)) is entered
BSendBegin ==
    /\ ~crashed
    /\ bpc = "send"
    /\ WsWriteBegin("B")
    /\ bpc' = "sending"
    /\ UNCHANGED <<chunkB, rxChunks, timeouts, errChan, wsOut>>
    /\ UNCHANGED <<tvars, xvars, mainVars, peerVars, aVars>>

\* WriteMessage returns, or panics
BSendEnd ==
    /\ ~crashed
    /\ bpc = "sending"
    /\ \/ \E ok \in BOOLEAN :
             /\ WsWriteEnd("B", "text", EncodeToString(chunkB), ok)
             /\ bpc' = IF ok THEN "read" ELSE "reportWrite"
       \/ /\ WsWritePanics("B")
          /\ UNCHANGED bpc
    /\ UNCHANGED <<chunkB, rxChunks, timeouts, errChan>>
    /\ UNCHANGED <<tvars, xvars, mainVars, peerVars, aVars>>

\* errChan <- err; return
BReport ==
    /\ ~crashed
    /\ bpc \in {"reportRead", "reportWrite"}
    /\ Len(errChan) < ErrChanCap
    /\ errChan' = Append(errChan, IF bpc = "reportRead" THEN "TCP read error"
                                   ELSE "WS write error")
    /\ bpc' = "done"
    /\ UNCHANGED <<chunkB, rxChunks, timeouts, wsOut, wsWriting, crashed>>
    /\ UNCHANGED <<tvars, xvars, mainVars, peerVars, aVars>>

MainStep == Upgrade \/ Dial \/ Wait \/ CloseTcp \/ CloseWs
LoopAStep == ARead \/ AErrBegin \/ AErrEnd \/ AWrite \/ AReport
LoopBStep == BRead \/ BSendBegin \/ BSendEnd \/ BReport

BridgeNext ==
    \/ \E f \in PeerFrames : WsPeerSend(f)
    \/ WsPeerClose
    \/ \E c \in BackendChunks : TcpPeerSend(c)
    \/ TcpPeerClose
    \/ Upgrade
    \/ Dial
    \/ Wait
    \/ CloseTcp
    \/ CloseWs
    \/ ARead
    \/ AErrBegin
    \/ AErrEnd
    \/ AWrite
    \/ AReport
    \/ BRead
    \/ BSendBegin
    \/ BSendEnd
    \/ BReport

\* ------------------------------------------------------------------------
\* The HTTP stub server (HTTPStubServer.ServeHTTP)
\* ------------------------------------------------------------------------
\* how many stubs the HTTP server holds
MaxHttpStubs == 2

\* "GET", "get", "POST"
MethodGET == <<71, 69, 84>>
MethodGetLower == <<103, 101, 116>>
MethodPOST == <<80, 79, 83, 84>>
\* "/a", "/b"
PathA == <<47, 97>>
PathB == <<47, 98>>
\* "x-k" as a rule writes it, "X-K" as the server stores the header of a request
KeyLower == <<120, 45, 107>>
KeyCanonical == <<88, 45, 75>>
\* "1"
Value1 == <<49>>
\* "2"
Value2 == <<50>>
\* "a", "ab", {"a":1}, {"a":2}
StrA == <<97>>
BodyAB == <<97, 98>>
BodyJsonA1 == <<123, 34, 97, 34, 58, 49, 125>>
BodyJsonA2 == <<123, 34, 97, 34, 58, 50, 125>>
\* {"error": "No stub matched"}
NoStubMatched ==
    <<123, 34, 101, 114, 114, 111, 114, 34, 58, 32, 34, 78, 111, 32, 115, 116, 117, 98, 32,
      109, 97, 116, 99, 104, 101, 100, 34, 125>>
\* "<nil>"
StrNil == <<60, 110, 105, 108, 62>>

IsUpper(c) == c >= 65 /\ c <= 90
IsLower(c) == c >= 97 /\ c <= 122
ToLower(c) == IF IsUpper(c) THEN c + 32 ELSE c
ToUpper(c) == IF IsLower(c) THEN c - 32 ELSE c

\* strings.EqualFold on ASCII strings
EqualFold(s, t) == Len(s) = Len(t) /\ \A i \in 1..Len(s) : ToLower(s[i]) = ToLower(t[i])

\* strings.Contains
Contains(s, sub) ==
    \E i \in 0..(Len(s) - Len(sub)) : SubSeq(s, i + 1, i + Len(sub)) = sub

\* textproto.CanonicalMIMEHeaderKey on a key of letters, digits and '-'
CanonicalMIMEHeaderKey(k) ==
    [i \in 1..Len(k) |->
        IF i = 1 \/ k[i - 1] = 45 THEN ToUpper(k[i]) ELSE ToLower(k[i])]

\* r.Header.Get(key): a header is a set of <<canonical key, value>>
HeaderGet(h, key) ==
    LET found == {kv \in h : kv[1] = CanonicalMIMEHeaderKey(key)}
    IN IF found = {} THEN <<>> ELSE (CHOOSE kv \in found : TRUE)[2]

\* w.Header().Set(key, value) for every pair of a rule's headers, in the order
\* the map is ranged over: the headers the response can carry. A value is
\* stored under the canonical form of its key and replaces what was there, so
\* of the keys with one canonical form the last one ranged over is kept.
HeaderSet(headers) ==
    LET canon == {<<CanonicalMIMEHeaderKey(kv[1]), kv[2]>> : kv \in headers}
        keys == {p[1] : p \in canon}
    IN { h \in SUBSET canon : \A k \in keys : Cardinality({p \in h : p[1] = k}) = 1 }

\* a JSON value: a number, or nil for a field that is not there
Num(n) == [t |-> "num", v |-> n]
Nil == [t |-> "nil", v |-> 0]
\* fmt.Sprintf("%v", v) of a one-digit number or of nil
Sprint(x) == IF x.t = "nil" THEN StrNil ELSE <<48 + x.v>>

\* json.Unmarshal(bodyBytes, &requestJSON) on the bodies of the model: the
\* object {"k":d} of one one-letter key and a one-digit number, the object {};
\* the other bodies of the model are not JSON. An object is a set of <<key, value>>.
Unmarshal(b) ==
    IF Len(b) = 7 /\ b[1] = 123 /\ b[2] = 34 /\ IsLower(b[3]) /\ b[4] = 34 /\ b[5] = 58
        /\ b[6] >= 48 /\ b[6] <= 57 /\ b[7] = 125
    THEN [err |-> FALSE, obj |-> { << <<b[3]>>, Num(b[6] - 48) >> }]
    ELSE IF b = <<123, 125>> THEN [err |-> FALSE, obj |-> {}]
    ELSE [err |-> TRUE, obj |-> {}]

\* jsonFieldMatches for a path without a dot
jsonFieldMatches(obj, path, expectedValue) ==
    LET found == {kv \in obj : kv[1] = path}
        current == IF found = {} THEN Nil ELSE (CHOOSE kv \in found : TRUE)[2]
    IN Sprint(current) = Sprint(expectedValue)

HTTPResponse(status, headers, body, delay) ==
    [Status |-> status, Headers |-> headers, Body |-> body, Delay |-> delay]

HTTPStub(name, method, path, headers, contains, json, response) ==
    [ Name |-> name, Method |-> method, Path |-> path, Headers |-> headers,
      BodyContains |-> contains, BodyJSON |-> json, Response |-> response ]

\* the stubs a configuration is made of. The status of a response is the int
\* of the config, whatever it is: 0 when the config leaves it out, 103 an
\* informational status, 204 a status that allows no body. The keys of the
\* response headers are as the config writes them: in lower case, or twice in
\* two spellings.
HttpStubPool ==
    { HTTPStub("plain", MethodGetLower, PathA, {}, <<>>, {},
               HTTPResponse(200, {<<KeyLower, Value1>>}, StrA, 0)),
      HTTPStub("header", MethodGET, PathA, {<<KeyLower, Value1>>}, <<>>, {},
               HTTPResponse(0, {}, StrA, 0)),
      HTTPStub("contains", MethodGET, PathA, {}, StrA, {},
               HTTPResponse(202, {<<KeyLower, Value1>>, <<KeyCanonical, Value2>>}, BodyAB, 50)),
      HTTPStub("json", MethodGET, PathA, {}, <<>>, {<<StrA, Num(1)>>},
               HTTPResponse(103, {}, BodyJsonA1, 0)),
      HTTPStub("post", MethodPOST, PathB, {}, StrA, {<<StrA, Num(2)>>},
               HTTPResponse(204, {}, BodyJsonA2, 0)) }

HttpConfigs == UNION { [1..n -> HttpStubPool] : n \in 0..MaxHttpStubs }

\* BodyFails: the body cannot be read to its end (the client went away during
\* the upload, or the chunked encoding is malformed); Body is then what arrived
Requests ==
    [ Method : {MethodGET, MethodPOST}, Path : {PathA, PathB},
      Header : { {}, {<<KeyCanonical, Value1>>} },
      Body : { <<>>, BodyAB, BodyJsonA1, BodyJsonA2 },
      BodyFails : BOOLEAN ]

\* a body reader: data is what it still yields, then EOF or (fails) an error
Reader(d, fails) == [data |-> d, fails |-> fails]

\* io.ReadAll(b): the outcomes of the call, each the bytes, the error, and the
\* reader as the call leaves it. A reader that has failed either fails again on
\* the next read (a broken connection, a malformed chunked body) or is then at
\* its end (a body with a Content-Length that the client cut short).
ReadAll(b) ==
    { [bytes |-> b.data, err |-> b.fails, rest |-> Reader(<<>>, again)] :
        again \in IF b.fails THEN BOOLEAN ELSE {FALSE} }

\* w.WriteHeader(status) and the w.Write that follows: the outcomes, each with
\* whether the call panicked and the status the response ends up with. A status
\* below 100 or above 999 makes WriteHeader panic. An informational status
\* other than 101 is, depending on the Go release the server was built with,
\* either the status of the response or a 1xx header sent ahead of a response
\* that the Write then gives the status 200.
WriteHeader(status) ==
    IF status < 100 \/ status > 999 THEN {[panic |-> TRUE, status |-> status]}
    ELSE IF status <= 199 /\ status # 101
    THEN {[panic |-> FALSE, status |-> status], [panic |-> FALSE, status |-> 200]}
    ELSE {[panic |-> FALSE, status |-> status]}

\* what w.Write does with the body under the response's status: a status that
\* allows no body (1xx, 204, 304) makes it return http.ErrBodyNotAllowed and
\* write nothing
BodyAllowedForStatus(status) ==
    ~((status >= 100 /\ status <= 199) \/ status = 204 \/ status = 304)

\* the response before anything is written
NoResponse == [Status |-> 0, Headers |-> {}, Body |-> <<>>, Slept |-> 0]

HttpInit ==
    /\ httpStubs \in HttpConfigs
    /\ request \in Requests
    /\ rBody = Reader(request.Body, request.BodyFails)
    /\ hpc = "scan"
    /\ scanIdx = 1
    /\ bodyReads = 0
    /\ httpResp = NoResponse

\* no request is being served
HttpIdle ==
    /\ httpStubs = <<>>
    /\ request = [Method |-> <<>>, Path |-> <<>>, Header |-> {}, Body |-> <<>>,
                  BodyFails |-> FALSE]
    /\ rBody = Reader(<<>>, FALSE)
    /\ hpc = "off"
    /\ scanIdx = 1
    /\ bodyReads = 0
    /\ httpResp = NoResponse

\* matchRequest(r, stub): the outcomes of the call, each with whether the
\* request matches and r.Body after the call (one outcome, but for a failed read).
\* body is r.Body before the call; a stub with body conditions reads all of it
\* and puts a reader of the same bytes in its place, unless the read failed:
\* then it does not match and r.Body stays the reader that failed.
matchRequest(r, body, st) ==
    IF ~EqualFold(st.Method, r.Method) THEN {[ok |-> FALSE, body |-> body, read |-> 0]}
    ELSE IF st.Path # r.Path THEN {[ok |-> FALSE, body |-> body, read |-> 0]}
    ELSE IF \E kv \in st.Headers : HeaderGet(r.Header, kv[1]) # kv[2]
    THEN {[ok |-> FALSE, body |-> body, read |-> 0]}
    ELSE IF st.BodyContains # <<>> \/ st.BodyJSON # {}
    THEN { LET bodyBytes == rd.bytes
                 requestJSON == Unmarshal(bodyBytes)
                 ok == /\ st.BodyContains # <<>> => Contains(bodyBytes, st.BodyContains)
                       /\ st.BodyJSON # {} =>
                             /\ ~requestJSON.err
                             /\ \A kv \in st.BodyJSON :
                                   jsonFieldMatches(requestJSON.obj, kv[1], kv[2])
             IN IF rd.err THEN [ok |-> FALSE, body |-> rd.rest, read |-> 1]
                ELSE [ok |-> ok, body |-> Reader(bodyBytes, FALSE), read |-> 1]
           : rd \in ReadAll(body) }
    ELSE {[ok |-> TRUE, body |-> body, read |-> 0]}

\* one round of the loop of ServeHTTP: the stub at scanIdx is tried
Scan ==
    /\ hpc = "scan"
    /\ scanIdx <= Len(httpStubs)
    /\ \E m \in matchRequest(request, rBody, httpStubs[scanIdx]) :
          /\ rBody' = m.body
          /\ bodyReads' = bodyReads + m.read
          /\ IF m.ok
             THEN /\ hpc' = "matched"
                  /\ UNCHANGED scanIdx
             ELSE /\ scanIdx' = scanIdx + 1
                  /\ UNCHANGED hpc
    /\ UNCHANGED <<httpStubs, request, httpResp>>
    /\ UNCHANGED <<tvars, bvars, rvars, svars>>

\* the stub at scanIdx matched: delay, headers (under their canonical keys,
\* one value for each), status, body; return. The
\* result of w.Write is not looked at. When WriteHeader panics the handler is
\* left there (the HTTP server recovers the panic and closes the connection):
\* nothing has been written to the client.
WriteStubResponse ==
    /\ hpc = "matched"
    /\ LET resp == httpStubs[scanIdx].Response
           slept == IF resp.Delay > 0 THEN resp.Delay ELSE 0
       IN \E wh \in WriteHeader(resp.Status), header \in HeaderSet(resp.Headers) :
             IF wh.panic
             THEN /\ httpResp' = [NoResponse EXCEPT !.Slept = slept]
                  /\ hpc' = "panicked"
             ELSE /\ httpResp' = [Status |-> wh.status, Headers |-> header,
                                  Body |-> IF BodyAllowedForStatus(wh.status)
                                           THEN resp.Body ELSE <<>>,
                                  Slept |-> slept]
                  /\ hpc' = "done"
    /\ UNCHANGED <<httpStubs, request, rBody, scanIdx, bodyReads>>
    /\ UNCHANGED <<tvars, bvars, rvars, svars>>

\* the loop has ended with no match: 404 and the fixed body
WriteNotFound ==
    /\ hpc = "scan"
    /\ scanIdx > Len(httpStubs)
    /\ httpResp' = [Status |-> 404, Headers |-> {}, Body |-> NoStubMatched, Slept |-> 0]
    /\ hpc' = "done"
    /\ UNCHANGED <<httpStubs, request, rBody, scanIdx, bodyReads>>
    /\ UNCHANGED <<tvars, bvars, rvars, svars>>

HttpNext == Scan \/ WriteStubResponse \/ WriteNotFound

\* ------------------------------------------------------------------------
\* The bridge's two conversions applied one after the other
\* ------------------------------------------------------------------------
\* the chunks of up to MaxRtLen bytes are all tried
MaxRtLen == 2

\* bytes with a digit and a letter in either half: 0x00, 0x0a, 0xab, 0xff
RtBytes == {0, 10, 171, 255}

\* the chunks a read of the TCP connection returned: the short ones, and three
\* that fill the buffer (an empty one stands for an empty frame sent back)
RtChunks ==
    UNION { [1..n -> RtBytes] : n \in 0..MaxRtLen }
    \cup { [i \in 1..BufSize |-> 0], [i \in 1..BufSize |-> 255],
           [i \in 1..BufSize |-> (i * 7) % 256] }

RtInit ==
    /\ rtData \in RtChunks
    /\ rtFrame = Frame("none", <<>>)
    /\ rtOut = [written |-> FALSE, data |-> <<>>, err |-> "nil"]
    /\ rtpc = "encode"

\* no round trip is made
RtIdle ==
    /\ rtData = <<>>
    /\ rtFrame = Frame("none", <<>>)
    /\ rtOut = [written |-> FALSE, data |-> <<>>, err |-> "nil"]
    /\ rtpc = "off"

\* hexData := hex.EncodeToString(data); WriteMessage(websocket.TextMessage, []byte(hexData))
RtEncode ==
    /\ rtpc = "encode"
    /\ rtFrame' = Frame("text", EncodeToString(rtData))
    /\ rtpc' = "decode"
    /\ UNCHANGED <<rtData, rtOut>>
    /\ UNCHANGED <<tvars, bvars, hvars, svars>>

\* the frame comes back: a binary frame is written as it is, a text frame is
\* decoded and written, or answered with an error frame when it does not decode
RtDecode ==
    /\ rtpc = "decode"
    /\ LET dec == DecodeString(rtFrame.data)
       IN rtOut' = IF rtFrame.mt = "binary"
                   THEN [written |-> TRUE, data |-> rtFrame.data, err |-> "nil"]
                   ELSE [written |-> dec.err = "nil", data |-> dec.bytes, err |-> dec.err]
    /\ rtpc' = "done"
    /\ UNCHANGED <<rtData, rtFrame>>
    /\ UNCHANGED <<tvars, bvars, hvars, svars>>

RtNext == RtEncode \/ RtDecode

\* ------------------------------------------------------------------------
\* The stub server process: main, TCPStubServer.Start, listenTCP and the
\* handlers of the connections it accepts
\* ------------------------------------------------------------------------
\* how many connections the listeners accept and how many requests the clients
\* of these connections write, in all
MaxArrivals == 4

\* a rule of the config file: a TCPStub with its name and port
TCPStub(name, port, s) == [Name |-> name, Port |-> port] @@ s

\* keeps the connection, answers 0x01 0x02 after 50 ms
RuleA == TCPStub("a", 9001, Stub(FALSE, <<0, 0>>, FALSE, <<50, [hex |-> Hex0102, msg |-> <<>>]>>))
\* on the port of RuleA: validates, answers "hi" and closes
RuleB == TCPStub("b", 9001, Stub(TRUE, <<4, 8>>, TRUE, <<0, [hex |-> <<>>, msg |-> MsgHi]>>))
\* on a port of its own: response_hex is not hexadecimal
RuleBad == TCPStub("bad", 9002, Stub(FALSE, <<0, 0>>, FALSE, <<0, [hex |-> HexZZ, msg |-> MsgHi]>>))

Config(given, readable, rules) == [given |-> given, readable |-> readable, TCPStubs |-> rules]

\* no -config flag, a file that cannot be read, and files with these tcp_stubs
ConfigFiles ==
    { Config(FALSE, FALSE, <<>>), Config(TRUE, FALSE, <<>>) }
    \cup { Config(TRUE, TRUE, rules) :
              rules \in { <<>>, <<RuleA, RuleB>>, <<RuleB, RuleBad, RuleA>> } }

\* make(map[int]*TCPStub)
EmptyMap == [p \in {} |-> RuleA]

ServerInit ==
    /\ mainPc = "load"
    /\ configFile \in ConfigFiles
    /\ tcpStubs = EmptyMap
    /\ addIdx = 0
    /\ listeners = EmptyBag
    /\ conns = EmptyBag

\* no stub server process is looked at
ServerIdle ==
    /\ mainPc = "off"
    /\ configFile = Config(FALSE, FALSE, <<>>)
    /\ tcpStubs = EmptyMap
    /\ addIdx = 0
    /\ listeners = EmptyBag
    /\ conns = EmptyBag

\* ---------------- main ----------------
\* LoadConfig(*configFile), or the hardcoded stubs (none of them a TCP stub);
\* log.Fatalf ends the process with status 1
LoadConfig ==
    /\ mainPc = "load"
    /\ mainPc' = IF ~configFile.given THEN "start"
                 ELSE IF ~configFile.readable THEN "exited"
                 ELSE "add"
    /\ UNCHANGED <<configFile, tcpStubs, addIdx, listeners, conns>>
    /\ UNCHANGED <<tvars, bvars, hvars, rvars>>

\* s.stubs[stub.Port] = &stub, the first rule of a port staying
AddStubKeepsFirst(stubs, s) ==
    [p \in DOMAIN stubs \cup {s.Port} |-> IF p \in DOMAIN stubs THEN stubs[p] ELSE s]

\* s.stubs[stub.Port] = &stub
AddStub(stubs, s) ==
    [p \in DOMAIN stubs \cup {s.Port} |-> IF p = s.Port THEN s ELSE stubs[p]]

\* for _, stub := range config.TCPStubs { tcpServer.AddStub(stub) }: one round,
\* or the end of the loop
AddStubs ==
    /\ mainPc = "add"
    /\ IF addIdx < Len(configFile.TCPStubs)
       THEN /\ tcpStubs' = AddStub(tcpStubs, configFile.TCPStubs[addIdx + 1])
            /\ addIdx' = addIdx + 1
            /\ UNCHANGED mainPc
       ELSE /\ mainPc' = "start"
            /\ UNCHANGED <<tcpStubs, addIdx>>
    /\ UNCHANGED <<configFile, listeners, conns>>
    /\ UNCHANGED <<tvars, bvars, hvars, rvars>>

Listener(port, s, state) == [port |-> port, stub |-> s, state |-> state]

\* if len(tcpServer.stubs) > 0 { tcpServer.Start() }: one goroutine for each key
\* of the map; Start returns nil
Start ==
    /\ mainPc = "start"
    /\ listeners' = IF DOMAIN tcpStubs # {}
                    THEN SetToBag({ Listener(p, tcpStubs[p], "bind") : p \in DOMAIN tcpStubs })
                    ELSE listeners
    /\ mainPc' = "listenHttp"
    /\ UNCHANGED <<configFile, tcpStubs, addIdx, conns>>
    /\ UNCHANGED <<tvars, bvars, hvars, rvars>>

\* http.ListenAndServe: it serves, or it fails (the port is taken) and
\* log.Fatalf ends the process with status 1, and with it every goroutine, its
\* listener and its connections
ListenAndServe ==
    /\ mainPc = "listenHttp"
    /\ \/ /\ mainPc' = "serving"
          /\ UNCHANGED <<listeners, conns>>
       \/ /\ mainPc' = "exited"
          /\ listeners' = EmptyBag
          /\ conns' = EmptyBag
    /\ UNCHANGED <<configFile, tcpStubs, addIdx>>
    /\ UNCHANGED <<tvars, bvars, hvars, rvars>>

\* the process is alive and its goroutines run
Running == mainPc \notin {"off", "exited"}

\* the requests written so far on the connections of the set hs
RECURSIVE SentInAll(_)
SentInAll(hs) ==
    IF hs = {} THEN 0
    ELSE LET h == CHOOSE x \in hs : TRUE
         IN h.sent * CopiesIn(h, conns) + SentInAll(hs \ {h})
\* the connections accepted and the requests written so far
Arrivals == BagCardinality(conns) + SentInAll(BagToSet(conns))

\* ---------------- listenTCP ----------------
Replace(l, l2) == (listeners (-) SetToBag({l})) (+) SetToBag({l2})
\* the connections with handler h having become h2
Stepped(h, h2) == (conns (-) SetToBag({h})) (+) SetToBag({h2})

\* net.Listen: the port is bound, or it is taken and listenTCP returns the error
\* to the goroutine of Start, which logs it
Listen(l) ==
    /\ Running
    /\ l.state = "bind"
    /\ \E st \in {"accepting", "failed"} : listeners' = Replace(l, [l EXCEPT !.state = st])
    /\ UNCHANGED <<mainPc, configFile, tcpStubs, addIdx, conns>>
    /\ UNCHANGED <<tvars, bvars, hvars, rvars>>

\* the handler of a connection that was just accepted
NewHandler(l) ==
    [ port |-> l.port, stub |-> l.stub, pc |-> "read", peer |-> "open", inbox |-> <<>>,
      sent |-> 0, data |-> <<>>, writes |-> 0, closes |-> 0 ]

\* Accept waiting for the handler it has started to return, before it is called again
AcceptInline(l) ==
    /\ Running
    /\ l.state = "accepting"
    /\ Arrivals < MaxArrivals
    /\ \A h \in BagToSet(conns) : h.pc = "done"
    /\ conns' = conns (+) SetToBag({NewHandler(l)})
    /\ UNCHANGED <<mainPc, configFile, tcpStubs, addIdx, listeners>>
    /\ UNCHANGED <<tvars, bvars, hvars, rvars>>

\* listener.Accept() returns a connection: go s.handleConnection(conn, stub)
Accept(l) ==
    /\ Running
    /\ l.state = "accepting"
    /\ Arrivals < MaxArrivals
    /\ conns' = conns (+) SetToBag({NewHandler(l)})
    /\ UNCHANGED <<mainPc, configFile, tcpStubs, addIdx, listeners>>
    /\ UNCHANGED <<tvars, bvars, hvars, rvars>>

\* listener.Accept() returns an error: it is logged, continue (the listener is
\* at its Accept again and nothing else has changed)
AcceptError(l) ==
    /\ Running
    /\ l.state = "accepting"
    /\ UNCHANGED <<mainPc, configFile, tcpStubs, addIdx, listeners, conns>>
    /\ UNCHANGED <<tvars, bvars, hvars, rvars>>

\* ---------------- the clients of the accepted connections ----------------
\* the request the clients write: two bytes, four hex characters
ServerRequest == <<240, 13>>

\* the client of the connection of handler h writes a request
PeerWrite(h, p) ==
    /\ Running
    /\ h.peer = "open" /\ h.pc # "done"
    /\ Arrivals < MaxArrivals
    /\ conns' = Stepped(h, [h EXCEPT !.inbox = @ \o p, !.sent = @ + 1])
    /\ UNCHANGED <<mainPc, configFile, tcpStubs, addIdx, listeners>>
    /\ UNCHANGED <<tvars, bvars, hvars, rvars>>

\* the client of the connection of handler h resets it: the bytes received
\* before the reset stay readable, the writes of the handler fail from now on
PeerReset(h) ==
    /\ Running
    /\ h.peer = "open" /\ h.pc # "done"
    /\ conns' = Stepped(h, [h EXCEPT !.peer = "reset"])
    /\ UNCHANGED <<mainPc, configFile, tcpStubs, addIdx, listeners>>
    /\ UNCHANGED <<tvars, bvars, hvars, rvars>>

\* ---------------- handleConnection of one accepted connection ----------------
\* reader.Read(buffer) of handler h: the handlers it can become, none while it
\* blocks. The read returns every byte pending on the connection, up to the
\* size of the buffer, whatever the number of writes they came in; after a
\* reset it fails, or still returns what was received before the reset.
HandlerRead(h, next) ==
    (IF h.peer = "reset" THEN { [h EXCEPT !.pc = "close"] } ELSE {})
    \cup
    (IF h.inbox # <<>>
     THEN LET n == Min(Len(h.inbox), BufSize)
          IN { [h EXCEPT !.data = SubSeq(h.inbox, 1, n),
                         !.inbox = SubSeq(h.inbox, n + 1, Len(h.inbox)),
                         !.pc = next] }
     ELSE {})

\* one step of handleConnection(conn, stub) for handler h: the handlers it can become
handleConnection(h) ==
    LET s == h.stub
        dec == DecodeString(s.Response.hex)
        writeOk == h.peer # "reset"
    IN CASE h.pc = "read" -> HandlerRead(h, "validate")
         [] h.pc = "validate" ->
              { [h EXCEPT !.pc = IF s.ValidateRequest /\ ~validateRequest(h.data, s)
                                 THEN "close" ELSE "delay"] }
         [] h.pc = "delay" -> { [h EXCEPT !.pc = "respond"] }
         [] h.pc = "respond" ->
              IF s.Response.hex # <<>> /\ dec.err # "nil"
              THEN { [h EXCEPT !.pc = "close"] }
              ELSE { [h EXCEPT !.writes = h.writes + 1,
                               !.pc = IF ~writeOk THEN "close"
                                      ELSE IF ~s.CloseAfter THEN "loop" ELSE "close"] }
         [] h.pc = "loop" -> HandlerRead(h, "loopwrite")
         [] h.pc = "loopwrite" -> { [h EXCEPT !.writes = h.writes + 1, !.pc = "loop"] }
         [] h.pc = "close" -> { [h EXCEPT !.closes = h.closes + 1, !.pc = "done"] }
         [] OTHER -> {}

\* the goroutine of handler h takes a step
Handle(h) ==
    /\ Running
    /\ \E h2 \in handleConnection(h) : conns' = Stepped(h, h2)
    /\ UNCHANGED <<mainPc, configFile, tcpStubs, addIdx, listeners>>
    /\ UNCHANGED <<tvars, bvars, hvars, rvars>>

ServerNext ==
    \/ LoadConfig
    \/ AddStubs
    \/ Start
    \/ ListenAndServe
    \/ \E l \in BagToSet(listeners) : Listen(l)
    \/ \E l \in BagToSet(listeners) : Accept(l)
    \/ \E l \in BagToSet(listeners) : AcceptError(l)
    \/ \E h \in BagToSet(conns) : PeerWrite(h, ServerRequest)
    \/ \E h \in BagToSet(conns) : PeerReset(h)
    \/ \E h \in BagToSet(conns) : Handle(h)

\* ------------------------------------------------------------------------
\* Specifications
\* ------------------------------------------------------------------------
\* The repository holds two programs. A run is one accepted TCP connection of
\* the stub server, or one request to the /ws endpoint of the bridge.
TcpStart == TcpInit /\ BridgeStart("off") /\ HttpIdle /\ RtIdle /\ ServerIdle
BridgeInit == TcpIdle /\ BridgeStart("upgrade") /\ HttpIdle /\ RtIdle /\ ServerIdle
\* or one request to the HTTP stub server, one chunk taken through the bridge's
\* two conversions, or one start of the stub server process
HttpStart == TcpIdle /\ BridgeStart("off") /\ HttpInit /\ RtIdle /\ ServerIdle
RtStart == TcpIdle /\ BridgeStart("off") /\ HttpIdle /\ RtInit /\ ServerIdle
ServerStart == TcpIdle /\ BridgeStart("off") /\ HttpIdle /\ RtIdle /\ ServerInit

Init == TcpStart \/ BridgeInit \/ HttpStart \/ RtStart \/ ServerStart

Next == TcpNext \/ BridgeNext \/ HttpNext \/ RtNext \/ ServerNext

Spec == Init /\ [][Next]_vars

\* One bridge session under the Go scheduler, which runs every goroutine that
\* can take a step. Nothing is assumed of the peers.
FairSpec ==
    /\ BridgeInit
    /\ [][BridgeNext]_vars
    /\ WF_vars(MainStep)
    /\ WF_vars(LoopAStep)
    /\ WF_vars(LoopBStep)

\* ------------------------------------------------------------------------
\* What the claims speak of
\* ------------------------------------------------------------------------
OkReads == SelectSeq(events, LAMBDA e : e.op = "read" /\ e.ok)
ReadCalls == SelectSeq(events, LAMBDA e : e.op = "read")
Writes == SelectSeq(events, LAMBDA e : e.op = "write")
Validations == SelectSeq(events, LAMBDA e : e.op = "validate")

IsHexChar(c) == (c >= 48 /\ c <= 57) \/ (c >= 97 /\ c <= 102) \/ (c >= 65 /\ c <= 70)
IsHexString(t) == Len(t) % 2 = 0 /\ \A i \in 1..Len(t) : IsHexChar(t[i])

\* the rule's response can be decoded
Decodable(r) == r.hex = <<>> \/ IsHexString(r.hex)
\* b is the response the rule configures (the rules' hex is lower case)
IsPayloadOf(b, r) == IF r.hex # <<>> THEN EncodeToString(b) = r.hex ELSE b = r.msg

FirstReadOk == events # <<>> /\ events[1].op = "read" /\ events[1].ok
PastRespond == pc \in {"loop", "loopwrite", "close", "done"}

\* the first exchange of a validating rule: the response when inBounds, nothing otherwise
FirstExchange(inBounds) ==
    IF inBounds
    THEN /\ PastRespond => Writes # <<>>
         /\ \A i \in 1..Len(Writes) : IsPayloadOf(Writes[i].bytes, stub.Response)
         /\ stub.CloseAfter => Len(Writes) <= 1
    ELSE /\ Writes = <<>>
         /\ pc \in {"validate", "close", "done"}
         /\ pc = "done" => closes = 1

\* C1 as amended: for a rule with validate_request and a decodable response, a
\* first read of n bytes is answered with exactly the configured response when
\* (min_length <= 0 or 2n >= min_length) and (max_length <= 0 or 2n <= max_length);
\* otherwise nothing is written and the connection is closed.
C1_ValidationDecidesResponse ==
    (pc # "off" /\ stub.ValidateRequest /\ Decodable(stub.Response) /\ FirstReadOk) =>
        LET n == events[1].n
        IN /\ n >= 1 /\ n <= 4096
           /\ FirstExchange(/\ (stub.MinLength <= 0 \/ 2 * n >= stub.MinLength)
                            /\ (stub.MaxLength <= 0 \/ 2 * n <= stub.MaxLength))

\* C1 as claimed: the same with a bound absent only when it is 0
C1_AsClaimed ==
    (pc # "off" /\ stub.ValidateRequest /\ Decodable(stub.Response) /\ FirstReadOk) =>
        LET n == events[1].n
        IN /\ n >= 1 /\ n <= 4096
           /\ FirstExchange(/\ (stub.MinLength = 0 \/ 2 * n >= stub.MinLength)
                            /\ (stub.MaxLength = 0 \/ 2 * n <= stub.MaxLength))

\* min_length 4, max_length 8, response_hex "0102": a 2-byte request got 0x01 0x02
C1_Witness ==
    /\ pc = "done" /\ stub.ValidateRequest /\ stub.CloseAfter
    /\ stub.MinLength = 4 /\ stub.MaxLength = 8 /\ stub.Response.hex = Hex0102
    /\ FirstReadOk /\ events[1].n = 2
    /\ Len(Writes) = 1 /\ Writes[1].bytes = <<1, 2>> /\ Writes[1].ok
    /\ closes = 1

\* C2: with close_after the handler reads at most once and writes at most once,
\* and after the write it only closes: it never reads again.
C2_CloseAfterOneExchange ==
    (pc # "off" /\ stub.CloseAfter) =>
        /\ Len(ReadCalls) <= 1
        /\ Len(Writes) <= 1
        /\ Len(Writes) = 1 => pc \in {"close", "done"}
        /\ pc = "done" => closes = 1

\* the exchange is over, the connection closed, and bytes the peer sent later are unread
C2_Witness ==
    /\ pc = "done" /\ stub.CloseAfter /\ closes = 1
    /\ Len(ReadCalls) = 1 /\ Len(Writes) = 1
    /\ Len(sent) = 2 /\ stream # <<>>

\* every read returned exactly one whole client write
ReadsAligned == \A i \in 1..Len(OkReads) : i <= Len(sent) /\ OkReads[i].n = sent[i]

\* C3 as amended: on a kept-alive connection the handler writes the response
\* once per read that returned data, always the same bytes; N client writes get
\* N responses when each of them is returned by a read of its own.
C3_OneResponsePerRead ==
    (pc # "off" /\ ~stub.CloseAfter /\ Writes # <<>>) =>
        /\ \A i \in 1..Len(Writes) : Writes[i].bytes = Writes[1].bytes
        /\ pc = "loop" => Len(Writes) = Len(OkReads)
        /\ (pc = "loop" /\ client # "reset" /\ stream = <<>> /\ ReadsAligned) =>
               Len(Writes) = Len(sent)

\* C3 as claimed: once everything the client wrote has been read and answered,
\* there are as many responses as client writes
C3_AsClaimed ==
    (pc = "loop" /\ ~stub.CloseAfter /\ client # "reset" /\ stream = <<>>) =>
        Len(Writes) = Len(sent)

\* two client writes, each read on its own, got two responses
C3_Witness ==
    /\ pc = "loop" /\ ~stub.CloseAfter /\ stream = <<>>
    /\ Len(sent) = 2 /\ ReadsAligned /\ Len(OkReads) = 2
    /\ Len(Writes) = 2 /\ Writes[2].bytes = Writes[1].bytes

\* C4: validation is computed at most once per connection, for the first read;
\* every later read that returns data is answered with the bytes of the first
\* exchange, whatever its length.
C4_ValidatedOnce ==
    pc # "off" =>
        /\ Len(Validations) <= 1
        /\ Validations # <<>> => events[2].op = "validate" /\ events[2].n = events[1].n
        /\ \A i \in 1..Len(Writes) : Writes[i].bytes = responseData
        /\ pc = "loop" => Len(Writes) = Len(OkReads)

\* a second request shorter than min_length was answered like the first
C4_Witness ==
    /\ pc = "loop" /\ stub.ValidateRequest /\ stub.MinLength = 4
    /\ Len(OkReads) = 2 /\ 2 * OkReads[2].n < stub.MinLength
    /\ Len(Writes) = 2 /\ Writes[2].bytes = Writes[1].bytes
    /\ Len(Validations) = 1

\* C5: every connection that was opened is closed exactly once when its handler
\* returns, and never twice: the stub's socket, the bridge's WebSocket
\* connection and the bridge's TCP connection.
C5_ClosedExactlyOnce ==
    /\ closes <= 1 /\ wsCloses <= 1 /\ tcpCloses <= 1
    /\ pc = "done" <=> closes = 1
    /\ ws = "none" => wsCloses = 0
    /\ tcp = "none" => tcpCloses = 0
    /\ mpc = "done" =>
          /\ ws # "none" => ws = "closed" /\ wsCloses = 1
          /\ tcp # "none" => tcp = "closed" /\ tcpCloses = 1

\* a session whose TCP backend could not be connected has returned
C5_Witness ==
    mpc = "done" /\ ws = "closed" /\ wsCloses = 1 /\ tcp = "none" /\ tcpCloses = 0

\* a frame the relay forwards: binary, or text that is hexadecimal
HexOk(f) == f.mt = "binary" \/ IsHexString(f.data)
Accepted == SelectSeq(rxFrames, HexOk)
Rejected == SelectSeq(rxFrames, LAMBDA f : ~HexOk(f))

\* C6: what is written to the TCP connection is, in order, each binary frame
\* as it is and each hexadecimal text frame decoded ("f00d" as 0xf0 0x0d), and
\* nothing else.
C6_FramesForwarded ==
    mpc # "off" =>
        /\ Len(tcpOut) = Len(Accepted) - (IF apc = "write" THEN 1 ELSE 0)
        /\ \A i \in 1..Len(tcpOut) :
              /\ IF Accepted[i].mt = "binary"
                 THEN tcpOut[i].data = Accepted[i].data
                 ELSE EncodeToString(tcpOut[i].data) = Accepted[i].data
              /\ Accepted[i] = Frame("text", HexF00D) => tcpOut[i].data = <<240, 13>>

\* the text frame "f00d" was written as the two bytes 0xf0 0x0d
C6_Witness ==
    /\ Len(tcpOut) = 1 /\ tcpOut[1].data = <<240, 13>> /\ tcpOut[1].ok
    /\ rxFrames = <<Frame("text", HexF00D)>>

ErrorFramesOfA == SelectSeq(wsOut, LAMBDA w : w.by = "A")

\* C7 apart from the session staying open: an invalid text frame is not
\* forwarded and is answered with one error text frame
InvalidHexAnswered ==
    /\ Len(ErrorFramesOfA) =
          Len(Rejected) - (IF apc \in {"errframe", "errsending"} THEN 1 ELSE 0)
    /\ \A i \in 1..Len(ErrorFramesOfA) :
          ErrorFramesOfA[i].mt = "text" /\ ErrorFramesOfA[i].data = ErrInvalidHex
    /\ Len(tcpOut) <= Len(Accepted)

\* C7 as claimed: an invalid text frame is not forwarded, is answered with one
\* error text frame, and the session goes on after it.
C7_AsClaimed ==
    mpc # "off" =>
        /\ InvalidHexAnswered
        /\ Rejected # <<>> => ~crashed

\* C8: when the TCP backend cannot be connected, exactly one error text frame
\* has been sent, neither goroutine was started, and the WebSocket connection
\* is closed when the handler returns.
C8_ConnectFailure ==
    (mpc \in {"wait", "closeTcp", "closeWs", "done"} /\ ws # "none" /\ tcp = "none") =>
        /\ Len(wsOut) = 1
        /\ wsOut[1].mt = "text" /\ wsOut[1].data = ErrCannotConnect /\ wsOut[1].by = "M"
        /\ apc = "idle" /\ bpc = "idle"
        /\ errChan = <<>> /\ tcpOut = <<>> /\ rxFrames = <<>> /\ rxChunks = <<>>
        /\ mpc = "done" => ws = "closed" /\ wsCloses = 1

\* the session ended on a connect failure
C8_Witness ==
    /\ mpc = "done" /\ tcp = "none" /\ ws = "closed"
    /\ Len(wsOut) = 1 /\ wsOut[1].ok /\ apc = "idle" /\ bpc = "idle"

\* both connections are closed: by the deferred closes of the handler or, when
\* the process has died on a panic, with the process, which keeps no
\* connection open
SessionOver == (ws = "closed" /\ tcp = "closed") \/ crashed

\* C9: once a goroutine has reported an error, both connections get closed; and
\* an established session never stays with exactly one of the two open.
C9_BothLegsClosed ==
    /\ (mpc = "wait" /\ errChan # <<>>) ~> SessionOver
    /\ (tcp # "none" /\ (ws = "open") # (tcp = "open")) ~> SessionOver

\* a session torn down after the TCP -> WebSocket goroutine reported an error
C9_Witness ==
    /\ mpc = "done" /\ ws = "closed" /\ tcp = "closed"
    /\ bpc = "done" /\ apc # "done"

\* C10: after the teardown both goroutines end: a send on errChan always finds
\* room, and no goroutine keeps running on a closed connection (they return, or
\* they are gone with the process when a panic has ended it).
C10_LoopsTerminate ==
    /\ [](Len(errChan) <= ErrChanCap)
    /\ []((apc \in {"reportRead", "reportWrite"} \/ bpc \in {"reportRead", "reportWrite"})
            => Len(errChan) < ErrChanCap)
    /\ (mpc = "done" /\ tcp = "closed") ~> ((apc = "done" /\ bpc = "done") \/ crashed)

\* both goroutines have ended, the second error left unread in the channel
C10_Witness ==
    /\ mpc = "done" /\ tcp = "closed" /\ apc = "done" /\ bpc = "done"
    /\ Len(errChan) = 1

DataFramesOfB == SelectSeq(wsOut, LAMBDA w : w.by = "B")
BSending == bpc \in {"send", "sending"}

\* C11 apart from the frame being written whole: every chunk read from the TCP
\* connection is passed to WriteMessage once, as a text frame holding its
\* hexadecimal encoding, in the order of the reads
ChunksFramed ==
    /\ Len(DataFramesOfB) = Len(rxChunks) - (IF BSending THEN 1 ELSE 0)
    /\ \A i \in 1..Len(rxChunks) : Len(rxChunks[i]) >= 1 /\ Len(rxChunks[i]) <= BufSize
    /\ \A i \in 1..Len(DataFramesOfB) :
          /\ DataFramesOfB[i].mt = "text"
          /\ DataFramesOfB[i].data = EncodeToString(rxChunks[i])

\* C11 as claimed: every chunk read from the TCP connection produces exactly one
\* text frame holding the hexadecimal encoding of that chunk; no chunk is
\* dropped or merged, so no frame is written while another write is in progress
\* and no chunk that was read is lost with the process.
C11_AsClaimed ==
    mpc # "off" =>
        /\ ChunksFramed
        /\ \A i \in 1..Len(DataFramesOfB) : ~DataFramesOfB[i].raced
        /\ crashed => ~BSending

\* the TCP -> WebSocket goroutine is blocked in a read that can only time out
BIdle == bpc = "read" /\ tcp = "open" /\ tcpIn = <<>> /\ tcpPeer = "open" /\ ~crashed

\* C12: a read that ends on the 30 s deadline puts nothing on errChan, sends no
\* frame, closes nothing and leaves the goroutine at its read; as long as both
\* peers are there, the session stays open whatever the number of timeouts.
C12_IdleTimeoutIsNoError ==
    /\ [][timeouts' # timeouts =>
             /\ BIdle
             /\ UNCHANGED <<bpc, errChan, wsOut, wsWriting, mainVars, aVars, chunkB, rxChunks>>
             /\ BIdle']_vars
    /\ []((tcp # "none" /\ wsPeer = "open" /\ tcpPeer = "open" /\ ~crashed) =>
             /\ mpc = "wait" /\ ws = "open" /\ tcp = "open" /\ errChan = <<>>
             /\ bpc \in {"read", "send", "sending"})

\* the read has timed out MaxTimeouts times and the session is as it was dialled
C12_Witness ==
    /\ timeouts = MaxTimeouts /\ BIdle
    /\ mpc = "wait" /\ ws = "open" /\ errChan = <<>> /\ wsOut = <<>>

SleepsAt == {i \in 1..Len(events) : events[i].op = "sleep"}
WritesAt == {i \in 1..Len(events) : events[i].op = "write"}
PassedAt == {i \in 1..Len(events) : events[i].op = "validate" /\ events[i].ok}

\* C16: in the first exchange the validation comes before the delay and the
\* delay before the write: a validating rule writes only after a validation that
\* passed, a rule with a delay writes only after the sleep has returned, and the
\* sleep starts only after the validation has passed.
C16_ValidateDelayWrite ==
    pc # "off" =>
        /\ \A w \in WritesAt :
              /\ stub.ValidateRequest => \E v \in PassedAt : v < w
              /\ stub.Delay > 0 => \E d \in SleepsAt : d < w
        /\ \A d \in SleepsAt :
              /\ events[d].n = stub.Delay
              /\ stub.ValidateRequest => \E v \in PassedAt : v < d
        /\ Cardinality(SleepsAt) <= 1
        /\ (stub.ValidateRequest /\ \E i \in 1..Len(events) :
                events[i].op = "validate" /\ ~events[i].ok) => WritesAt = {} /\ SleepsAt = {}

\* a validating rule with a delay has answered: read, validate, sleep, write
C16_Witness ==
    /\ stub.ValidateRequest /\ stub.Delay > 0 /\ Len(events) >= 4
    /\ events[1].op = "read" /\ events[2].op = "validate" /\ events[2].ok
    /\ events[3].op = "sleep" /\ events[4].op = "write" /\ events[4].ok

FailedWritesAt == {i \in WritesAt : ~events[i].ok}

\* C20 as claimed: after a write that failed the handler makes no other call on
\* the connection than its close: no read and no write follows.
C20_AsClaimed ==
    pc # "off" =>
        \A w \in FailedWritesAt :
            \A i \in (w + 1)..Len(events) : events[i].op = "close"

FailedListeners == {l \in BagToSet(listeners) : l.state = "failed"}

\* C13 for the config file: when it cannot be read, main ends the process with
\* status 1 before anything is started
ConfigErrorIsFatal ==
    (mainPc # "off" /\ configFile.given /\ ~configFile.readable) =>
        /\ mainPc \in {"load", "exited"}
        /\ listeners = EmptyBag /\ conns = EmptyBag

\* C13 as claimed: the process does not go on serving when its config file
\* cannot be read or when the port of one of its TCP rules cannot be bound.
C13_AsClaimed ==
    mainPc # "off" =>
        /\ ConfigErrorIsFatal
        /\ FailedListeners # {} => mainPc # "serving"

\* a handler that is not waiting for its own client
Unblocked(h) ==
    \/ h.pc \in {"validate", "delay", "respond", "loopwrite", "close"}
    \/ h.pc \in {"read", "loop"} /\ (h.inbox # <<>> \/ h.peer = "reset")

AcceptingOn(p) == \E l \in BagToSet(listeners) : l.port = p /\ l.state = "accepting"

\* C14: while the process runs, a handler that is not waiting for its own client
\* can take its next step whatever the other handlers do (blocked in a read,
\* asleep, ended by an error), a listener that has bound its port can accept,
\* and the listener of every connection that was accepted is still accepting.
C14_HandlersIsolated ==
    Running =>
        /\ \A h \in BagToSet(conns) : Unblocked(h) => ENABLED Handle(h)
        /\ \A l \in BagToSet(listeners) :
              (l.state = "accepting" /\ Arrivals < MaxArrivals) => ENABLED Accept(l)
        /\ \A h \in BagToSet(conns) : AcceptingOn(h.port)

\* one handler is asleep in its delay, another has ended on a reset of its
\* client; a third connection can be accepted
C14_Witness ==
    /\ Running /\ BagCardinality(conns) = 2
    /\ \E h1, h2 \in BagToSet(conns) :
          /\ h1.pc = "delay" /\ h1.stub.Delay > 0
          /\ h2.pc = "done" /\ h2.peer = "reset" /\ h2.writes = 0
    /\ \E l \in BagToSet(listeners) : ENABLED Accept(l)

\* C15: with a response_hex that is not hexadecimal a connection is closed
\* without a write once it has come to the response; the process ends only on
\* an error of main (the config file, the HTTP port), never on a step of a
\* handler; the listener of the rule goes on accepting, and the connections of
\* the rules that decode are answered.
C15_BadResponseHexClosesConnection ==
    /\ []((pc # "off" /\ ~Decodable(stub.Response)) =>
             /\ Writes = <<>>
             /\ pc \notin {"loop", "loopwrite"}
             /\ pc = "done" => closes = 1)
    /\ [](\A h \in BagToSet(conns) :
             IF Decodable(h.stub.Response)
             THEN h.pc \in {"loop", "loopwrite"} => h.writes >= 1
             ELSE /\ h.writes = 0
                  /\ h.pc \notin {"loop", "loopwrite"}
                  /\ h.pc = "done" => h.closes = 1
                  /\ Running => AcceptingOn(h.port))
    /\ [][(mainPc' = "exited" /\ mainPc # "exited") =>
             \/ mainPc = "load" /\ ~configFile.readable
             \/ mainPc = "listenHttp"]_vars

\* the connection of the rule with the bad response_hex was closed unanswered,
\* and the process serves: a connection of another rule has been answered
C15_Witness ==
    /\ mainPc = "serving" /\ BagCardinality(conns) = 2
    /\ \E h, g \in BagToSet(conns) :
          /\ ~Decodable(h.stub.Response)
          /\ h.pc = "done" /\ h.writes = 0 /\ h.data # <<>>
          /\ Decodable(g.stub.Response)
          /\ g.pc = "loop" /\ g.writes = 1
          /\ AcceptingOn(h.port)

HasBodyConditions(st) == st.BodyContains # <<>> \/ st.BodyJSON # {}

\* the request as it arrived fully matches the stub; body conditions are met
\* only by a body that can be read to its end
FullyMatches(r, st) ==
    /\ EqualFold(st.Method, r.Method)
    /\ st.Path = r.Path
    /\ \A kv \in st.Headers : HeaderGet(r.Header, kv[1]) = kv[2]
    /\ HasBodyConditions(st) => ~r.BodyFails
    /\ st.BodyContains # <<>> => Contains(r.Body, st.BodyContains)
    /\ st.BodyJSON # {} =>
          /\ ~Unmarshal(r.Body).err
          /\ \A kv \in st.BodyJSON : jsonFieldMatches(Unmarshal(r.Body).obj, kv[1], kv[2])

Matching == {i \in 1..Len(httpStubs) : FullyMatches(request, httpStubs[i])}

HasEnded == hpc \in {"done", "panicked"}

\* the headers sent are those configured, the case of their names apart: each
\* header sent has the value the rule gives it, and each name of the rule is sent
HeadersAsConfigured(sentHeaders, configured) ==
    /\ \A p \in sentHeaders :
          \E kv \in configured : EqualFold(kv[1], p[1]) /\ kv[2] = p[2]
    /\ \A kv \in configured : \E p \in sentHeaders : EqualFold(kv[1], p[1])

\* C17 as far as the choice of the stub goes: the stubs are tried in the order
\* of the configuration and the loop stops at the first that fully matches the
\* request as it arrived, also after earlier stubs have read the body; with no
\* such stub the answer is 404 and the fixed body. A body is read once by each
\* stub tried that has body conditions and whose method, path and headers match.
FirstMatchSelected ==
    /\ hpc \in {"matched", "done", "panicked"} =>
          IF Matching = {}
          THEN /\ hpc = "done" /\ scanIdx = Len(httpStubs) + 1
               /\ httpResp.Status = 404 /\ httpResp.Body = NoStubMatched
          ELSE /\ scanIdx \in Matching
               /\ \A j \in Matching : scanIdx <= j
    /\ hpc = "scan" => \A j \in Matching : scanIdx <= j
    /\ (hpc = "done" /\ Matching # {}) =>
          LET resp == httpStubs[scanIdx].Response
          IN /\ HeadersAsConfigured(httpResp.Headers, resp.Headers)
             /\ \A p \in httpResp.Headers : p[1] = CanonicalMIMEHeaderKey(p[1])
             /\ \A p, q \in httpResp.Headers : p[1] = q[1] => p = q
             /\ httpResp.Slept = resp.Delay
             /\ httpResp.Status \in {resp.Status, 200}
             /\ httpResp.Body \in {resp.Body, <<>>}
             /\ resp.Status \in {200, 202} =>
                   httpResp.Status = resp.Status /\ httpResp.Body = resp.Body

\* C17 as claimed: once the request has been handled, the answer is the response
\* of the first stub, in the order of the configuration, that fully matches the
\* request (its status, its headers whatever the case of their names, its
\* body); with no such stub it is 404 and the fixed body.
C17_AsClaimed ==
    HasEnded =>
        IF Matching = {}
        THEN httpResp.Status = 404 /\ httpResp.Body = NoStubMatched
        ELSE LET first == CHOOSE i \in Matching : \A j \in Matching : i <= j
                 resp == httpStubs[first].Response
             IN /\ httpResp.Status = resp.Status
                /\ httpResp.Body = resp.Body
                /\ HeadersAsConfigured(httpResp.Headers, resp.Headers)

\* C18: a chunk of 0 to 4096 bytes that is encoded as the TCP -> WebSocket
\* goroutine encodes it, and whose text frame is handled as the WebSocket -> TCP
\* goroutine handles a text frame, is written to the TCP connection as it was.
C18_RoundTrip ==
    rtpc # "off" =>
        /\ Len(rtData) <= BufSize
        /\ rtpc \in {"decode", "done"} =>
              rtFrame.mt = "text" /\ Len(rtFrame.data) = 2 * Len(rtData)
        /\ rtpc = "done" => rtOut.written /\ rtOut.err = "nil" /\ rtOut.data = rtData

\* a full buffer of differing bytes has come back as it was
C18_Witness ==
    /\ rtpc = "done" /\ Len(rtData) = BufSize /\ rtData[1] # rtData[2]
    /\ rtOut.written /\ rtOut.data = rtData

PortsOf(rules) == {rules[i].Port : i \in 1..Len(rules)}
\* the last rule of the config with port p
LastRuleOf(rules, p) ==
    rules[CHOOSE i \in 1..Len(rules) :
              rules[i].Port = p /\ \A j \in (i + 1)..Len(rules) : rules[j].Port # p]
\* the number of goroutines running listenTCP for port p
ListenersOn(p) ==
    BagCardinality([l \in {x \in BagToSet(listeners) : x.port = p} |-> listeners[l]])

\* C19: once Start has returned, the map holds one rule for each port of the
\* config, the last one added; one listener was started for each port, with that
\* rule; and every accepted connection is handled with the rule of its port.
C19_OneRulePerPort ==
    (mainPc # "off" /\ configFile.given /\ configFile.readable) =>
        LET rules == configFile.TCPStubs
        IN IF mainPc \in {"load", "add", "start"}
           THEN listeners = EmptyBag /\ conns = EmptyBag
           ELSE /\ DOMAIN tcpStubs = PortsOf(rules)
                /\ \A p \in PortsOf(rules) :
                      /\ tcpStubs[p] = LastRuleOf(rules, p)
                      /\ Running => ListenersOn(p) = 1
                /\ \A l \in BagToSet(listeners) :
                      l.port \in PortsOf(rules) /\ l.stub = LastRuleOf(rules, l.port)
                /\ \A h \in BagToSet(conns) :
                      /\ h.port \in PortsOf(rules)
                      /\ h.stub = LastRuleOf(rules, h.port)

\* two rules were added for one port, the first of them first; a connection on
\* that port was answered by the second
C19_Witness ==
    /\ mainPc = "serving" /\ Len(configFile.TCPStubs) = 3
    /\ configFile.TCPStubs[1].Port = configFile.TCPStubs[3].Port
    /\ \E h \in BagToSet(conns) :
          /\ h.stub = configFile.TCPStubs[3]
          /\ h.stub # configFile.TCPStubs[1]
          /\ h.writes = 1
    /\ ListenersOn(configFile.TCPStubs[3].Port) = 1

OkReadsAt == {i \in 1..Len(events) : events[i].op = "read" /\ events[i].ok}

\* C21 as claimed: for a rule with a positive response delay every response
\* write, the first and those on the kept-alive connection, is preceded by a
\* sleep of the configured delay made after the read that triggered the write.
C21_AsClaimed ==
    (pc # "off" /\ stub.Delay > 0) =>
        \A w \in WritesAt :
            \E r \in OkReadsAt, d \in SleepsAt :
                /\ r < d /\ d < w
                /\ events[d].n = stub.Delay
                /\ \A j \in (r + 1)..(w - 1) : events[j].op # "read"

\* C22 as claimed: at most one task is inside wsConn.WriteMessage at any time:
\* the error frame of the WebSocket -> TCP goroutine and the data frame of the
\* TCP -> WebSocket goroutine are never being written at once, and no write is
\* entered while the other is in progress (which the connection answers with a
\* panic).
C22_AsClaimed ==
    /\ Cardinality(wsWriting) <= 1
    /\ ~(apc = "errsending" /\ bpc = "sending")
    /\ ~crashed

\* the bytes the WebSocket -> TCP goroutine sends for an accepted frame
PayloadOf(f) == IF f.mt = "binary" THEN f.data ELSE DecodeString(f.data).bytes

\* C23 apart from the frames being written whole: in each direction the calls
\* of the relay keep order and multiplicity. tcpConn.Write is called once per
\* accepted frame, in receive order, and WriteMessage is called once per chunk
\* read, in read order; only the item being relayed is still to come.
RelayOrderKept ==
    /\ Len(tcpOut) = Len(Accepted) - (IF apc = "write" THEN 1 ELSE 0)
    /\ \A i \in 1..Len(tcpOut) : tcpOut[i].data = PayloadOf(Accepted[i])
    /\ apc = "write" => dataToSend = PayloadOf(Accepted[Len(Accepted)])
    /\ Len(DataFramesOfB) = Len(rxChunks) - (IF BSending THEN 1 ELSE 0)
    /\ \A i \in 1..Len(DataFramesOfB) :
          DataFramesOfB[i].data = EncodeToString(rxChunks[i])
    /\ BSending => chunkB = rxChunks[Len(rxChunks)]

\* C23 as claimed: while the session is open each direction relays its items
\* once each and in order, whatever the other direction does: the payloads
\* written to the TCP connection are those of the accepted frames in receive
\* order, and the data frames that went out on the WebSocket connection are
\* those of the chunks in read order, none of them mixed on the wire with a
\* frame of the other direction.
C23_AsClaimed ==
    (mpc # "off" /\ ~crashed) =>
        /\ RelayOrderKept
        /\ \A i \in 1..Len(DataFramesOfB) : ~DataFramesOfB[i].raced

====
